---- MODULE Spec2Model ----
(***************************************************************************)
(* Model of instagrapi/mixins/media.py (class MediaMixin): the identifier  *)
(* helpers media_id / media_pk, the cached media_info with its fallback    *)
(* chain (media_info_gql, session injection, media_info_v1), and the       *)
(* mutating calls media_delete, media_edit, media_like, media_unlike.      *)
(*                                                                         *)
(* Identifiers are Python strings, modelled as sequences of one-character  *)
(* strings.  Media objects live in a heap of object ids so that aliasing   *)
(* (the stored cache object versus the deepcopy handed to the caller) is   *)
(* visible.  Every public call is one action; the transport calls, cache   *)
(* writes and log entries it performs are recorded, in order, in the       *)
(* trace of the last call.                                                 *)
(***************************************************************************)
EXTENDS Integers, Sequences, FiniteSets, TLC

\* ------------------------------------------------------------------ bounds
MaxPk == 1        \* primary keys 1..MaxPk are used as inputs

PKs == 1..MaxPk

\* the owner ids (Media.user.pk) that fetched payloads carry
Owners == {7, 8}

\* object ids: one per cache entry, and the objects a call creates before
\* the unreferenced ones are reclaimed
ObjIds == 1..(MaxPk + 3)

\* id given to a returned object when the heap is renumbered after a call
\* (cache objects are numbered by their key)
RetId == MaxPk + 1

\* ----------------------------------------------------------------- strings
Digits == <<"0", "1", "2", "3", "4", "5", "6", "7", "8", "9">>

DigitChars == {Digits[i] : i \in 1..10}

DigitVal(ch) == (CHOOSE i \in 1..10 : Digits[i] = ch) - 1

\* Python str(n) for a non-negative int
RECURSIVE ToStr(_)
ToStr(n) == IF n < 10 THEN <<Digits[n + 1]>>
            ELSE ToStr(n \div 10) \o <<Digits[(n % 10) + 1]>>

\* Python str.isdigit(): non-empty and every character a digit
IsDigit(s) == Len(s) > 0 /\ \A i \in 1..Len(s) : s[i] \in DigitChars

\* Python "_" in s
HasSep(s) == \E i \in 1..Len(s) : s[i] = "_"

\* Python s.split("_"): the list of segments between separators
RECURSIVE Split(_)
Split(s) ==
    IF ~HasSep(s) THEN <<s>>
    ELSE LET i == CHOOSE k \in 1..Len(s) :
                     s[k] = "_" /\ \A j \in 1..(k - 1) : s[j] # "_"
         IN <<SubSeq(s, 1, i - 1)>> \o Split(SubSeq(s, i + 1, Len(s)))

RECURSIVE DecValue(_)
DecValue(s) == IF Len(s) = 0 THEN 0
               ELSE 10 * DecValue(SubSeq(s, 1, Len(s) - 1)) + DigitVal(s[Len(s)])

\* Python int(s) over the alphabet of digits, "_" and letters: a digit string
\* parses to its value, anything else raises ValueError
ParseInt(s) == IF IsDigit(s) THEN [err |-> "", val |-> DecValue(s)]
               ELSE [err |-> "ValueError", val |-> 0]

\* variant of JoinId: the two format arguments swapped
JoinId_OwnerFirst(media_id, owner) == ToStr(owner) \o <<"_">> \o media_id

\* "%s_%s" % (media_id, user.pk)
JoinId(media_id, owner) == media_id \o <<"_">> \o ToStr(owner)

\* MediaMixin.media_pk: split on "_" when present (exactly two segments are
\* unpacked, anything else raises ValueError), then int() of the first
media_pk(media_id) ==
    IF HasSep(media_id)
    THEN LET parts == Split(media_id)
         IN IF Len(parts) # 2 THEN [err |-> "ValueError", val |-> 0]
            ELSE ParseInt(parts[1])
    ELSE ParseInt(media_id)

\* ------------------------------------------------------------- input sets
\* identifier arguments handed to the public calls: all-digit primary keys,
\* composite ids "pk_owner", and malformed strings (not all-digit without a
\* separator, an empty first segment, more than one separator)
DigitIds == {ToStr(p) : p \in PKs}

CompositeIds == {ToStr(p) \o <<"_", "7">> : p \in PKs}

MalformedIds == {<<"a">>, <<"_", "1">>, <<"1", "_", "7", "_", "7">>}

InputIds == DigitIds \cup CompositeIds \cup MalformedIds

\* outcomes of public_graphql_request + extraction inside media_info_gql
GraphOutcomes == {"ok", "ClientLoginRequired", "MediaNotFound", "Exception"}

\* outcomes of private_request("media/{pk}/info/")
PrivateOutcomes == {"ok", "ClientNotFoundError", "ClientError:Media not found",
                    "ClientError"}

\* outcomes of the mutating private_request calls: the platform confirms
\* ("ok"), answers without confirming ("nack"), or the request raises
MutateOutcomes == {"ok", "nack", "ClientError"}

\* what the transport answers during one public call: first graph request,
\* inject_sessionid_to_public, retried graph request, private info request,
\* mutating private request, and the owner carried by a fetched payload.
\* An answer that the chain cannot ask for keeps its default value.
Oracles ==
    {o \in [g1 : GraphOutcomes, el : BOOLEAN, g2 : GraphOutcomes,
            p : PrivateOutcomes, m : MutateOutcomes, user : Owners] :
        /\ (o.g1 # "ClientLoginRequired" => o.el)
        /\ (o.g1 # "ClientLoginRequired" \/ ~o.el => o.g2 = "ok")
        /\ (o.g1 = "ok" => o.p = "ok")
        /\ (o.g1 = "ClientLoginRequired" /\ o.el /\ o.g2 = "ok" => o.p = "ok")
        /\ (o.p # "ok" => o.user = 7)}

DefaultOracle == [g1 |-> "ok", el |-> TRUE, g2 |-> "ok", p |-> "ok",
                  m |-> "ok", user |-> 7]

\* a Media object: the extractor that built it and the owner (Media.user.pk)
Media == [via : {"gql", "v1"}, user : Owners]

NoMedia == [via |-> "none", user |-> 0]

\* a Media after a caller overwrote its fields
Scribbled == [via |-> "caller", user |-> 0]

Ev(e, r) == [e |-> e, r |-> r]

\* ---------------------------------------------------------- fetch strategies
\* exception classes of instagrapi.exceptions that derive from ClientError
IsClientError(kind) ==
    kind \in {"ClientError", "ClientNotFoundError", "MediaNotFound",
              "ClientLoginRequired", "ClientError:Media not found"}

\* MediaMixin.media_info_gql: one graph request; a payload without
\* shortcode_media raises MediaNotFound
media_info_gql(out, orc) ==
    [res   |-> out,
     media |-> IF out = "ok" THEN [via |-> "gql", user |-> orc.user] ELSE NoMedia,
     tr    |-> <<Ev("gql", out)>>]

\* variant of V1Error: every error of the request becomes MediaNotFound
V1Error_AllNotFound(out) == IF out = "ok" THEN out ELSE "MediaNotFound"

\* the error media_info_v1 raises for an outcome of private_request
V1Error(out) ==
    IF out = "ClientNotFoundError" THEN "MediaNotFound"
    ELSE IF out = "ClientError:Media not found" THEN "MediaNotFound"
    ELSE out

\* MediaMixin.media_info_v1: one private request
media_info_v1(out, orc) ==
    [res   |-> V1Error(out),
     media |-> IF out = "ok" THEN [via |-> "v1", user |-> orc.user] ELSE NoMedia,
     tr    |-> <<Ev("v1", out)>>]

\* variant of Fallback: when media_info_v1 fails too, the error that was
\* caught is raised
Fallback_RaisesFirst(err, pre, orc) ==
    LET lg == IF IsClientError(err) THEN <<>> ELSE <<Ev("log", err)>>
        v  == media_info_v1(orc.p, orc)
    IN [v EXCEPT !.tr = pre \o lg \o @,
                 !.res = IF v.res = "ok" THEN "ok" ELSE err]

\* variant of Fallback: nothing is logged
Fallback_Silent(err, pre, orc) ==
    LET v == media_info_v1(orc.p, orc)
    IN [v EXCEPT !.tr = pre \o @]

\* the handler "except Exception as e" of media_info: log what is not a
\* ClientError, then fall back to media_info_v1
Fallback(err, pre, orc) ==
    LET lg == IF IsClientError(err) THEN <<>> ELSE <<Ev("log", err)>>
        v  == media_info_v1(orc.p, orc)
    IN [v EXCEPT !.tr = pre \o lg \o @]

\* variant of LoginRequiredHandler: no retry after a successful injection
LoginRequiredHandler_NoRetry(g, orc) ==
    Fallback(g.res,
             g.tr \o <<Ev("inject", IF orc.el THEN "True" ELSE "False")>>, orc)

\* variant of LoginRequiredHandler: a ClientLoginRequired of the retry is
\* handled like the first one, by another injection and another retry
LoginRequiredHandler_Reelevate(g, orc) ==
    LET inj == <<Ev("inject", IF orc.el THEN "True" ELSE "False")>>
        tr1 == g.tr \o inj
    IN IF ~orc.el THEN Fallback(g.res, tr1, orc)
       ELSE LET g2 == media_info_gql(orc.g2, orc)
            IN IF g2.res = "ok" THEN [g2 EXCEPT !.tr = tr1 \o @]
               ELSE IF g2.res = "ClientLoginRequired"
                    THEN Fallback(g2.res, tr1 \o g2.tr \o inj \o g2.tr, orc)
               ELSE Fallback(g2.res, tr1 \o g2.tr, orc)

\* the except ClientLoginRequired handler of media_info: inject the session
\* id; "raise e" when that fails; otherwise one retry of media_info_gql.
\* Both the re-raised error and an error of the retry leave the inner try
\* statement inside the outer try, whose handler is Fallback.
LoginRequiredHandler(g, orc) ==
    LET tr1 == g.tr \o <<Ev("inject", IF orc.el THEN "True" ELSE "False")>>
    IN IF ~orc.el THEN Fallback(g.res, tr1, orc)
       ELSE LET g2 == media_info_gql(orc.g2, orc)
            IN IF g2.res = "ok" THEN [g2 EXCEPT !.tr = tr1 \o @]
               ELSE Fallback(g2.res, tr1 \o g2.tr, orc)

\* variant of FetchChain: an error of the graph strategy other than
\* ClientLoginRequired leaves media_info
FetchChain_NoFallback(orc) ==
    LET g == media_info_gql(orc.g1, orc)
    IN IF g.res = "ClientLoginRequired" THEN LoginRequiredHandler(g, orc)
       ELSE g

\* the nested try statements of media_info that produce `media`
FetchChain(orc) ==
    LET g == media_info_gql(orc.g1, orc)
    IN IF g.res = "ok" THEN g
       ELSE IF g.res = "ClientLoginRequired" THEN LoginRequiredHandler(g, orc)
       ELSE Fallback(g.res, g.tr, orc)

\* ------------------------------------------------------------------ state
VARIABLES
    user_id,   \* self.user_id is set (a session exists)
    cache,     \* self._medias_cache: primary key -> object id
    heap,      \* live Media objects: object id -> contents
    stored,    \* history: contents of each cache entry when it was written
    since,     \* history: per primary key, the last of "info" (a media_info
               \* returned) and "mut" (a delete/edit request was issued)
    last,      \* the call that has just returned, its result and its trace
               \* (NoCall once the caller has taken the result)
    inst,      \* with two client objects: the one that made the last call,
               \* and history: per client the keys it wrote and did not pop
    thr        \* with two threads on one client: the position of a
               \* media_info and of a media_edit / media_delete in progress

vars == <<user_id, cache, heap, stored, since, last, inst, thr>>

Range(f) == {f[x] : x \in DOMAIN f}

Restrict(f, S) == [x \in S |-> f[x]]

\* the working state of a call in progress
Ctx == [cache |-> cache, heap |-> heap, stored |-> stored,
        roots |-> {}, tr |-> <<>>, res |-> "ok", ret |-> 0,
        sid |-> <<>>, flag |-> FALSE, val |-> 0]

FreeIds(h) == ObjIds \ DOMAIN h

\* a fresh object id
Alloc(h) == CHOOSE o \in FreeIds(h) : \A q \in FreeIds(h) : o <= q

\* objects referenced neither by the cache nor by a caller are reclaimed
Collect(c) ==
    [c EXCEPT !.heap = Restrict(@, DOMAIN @ \cap (Range(c.cache) \cup c.roots))]

\* variant of deepcopy: the object itself is handed out
deepcopy_Alias(h, o) == [heap |-> h, ref |-> o]

\* copy.deepcopy(obj): a new object with equal contents
deepcopy(h, o) ==
    LET n == Alloc(h) IN [heap |-> (n :> h[o]) @@ h, ref |-> n]

\* variant of NeedFetch: use_cache is not looked at
NeedFetch_IgnoresFlag(use_cache, pk, ch) == pk \notin DOMAIN ch

\* variant of NeedFetch: the membership test never finds the key
NeedFetch_NeverCached(use_cache, pk, ch) == TRUE

\* "not use_cache or media_pk not in self._medias_cache"
NeedFetch(use_cache, pk, ch) == ~use_cache \/ pk \notin DOMAIN ch

\* self._medias_cache[media_pk] = media
Put(c, pk, media) ==
    LET o == Alloc(c.heap)
    IN [c EXCEPT !.heap = (o :> media) @@ @,
                 !.cache = (pk :> o) @@ @,
                 !.stored = (pk :> media) @@ @,
                 !.tr = Append(@, Ev("put", "ok"))]

\* self._medias_cache.pop(pk, None)
Pop(c, pk) ==
    [c EXCEPT !.cache = Restrict(@, DOMAIN @ \ {pk}),
              !.stored = Restrict(@, DOMAIN @ \ {pk}),
              !.tr = Append(@, Ev("pop", "ok"))]

Raise(c, err) == [c EXCEPT !.res = err]

\* media_info, line 242: return deepcopy(self._medias_cache[media_pk])
CopyOut(c, d) ==
    [c EXCEPT !.heap = d.heap, !.ret = d.ref,
              !.tr = Append(@, Ev("deepcopy", "ok"))]

InfoReturn(c, pk) == CopyOut(c, deepcopy(c.heap, c.cache[pk]))

\* variant of InfoStore: a failed fetch drops the entry of the key
InfoStore_DropOnError(c, pk, f) ==
    IF f.res # "ok"
    THEN Raise([c EXCEPT !.tr = @ \o f.tr,
                         !.cache = Restrict(@, DOMAIN @ \ {pk}),
                         !.stored = Restrict(@, DOMAIN @ \ {pk})], f.res)
    ELSE InfoReturn(Put([c EXCEPT !.tr = @ \o f.tr], pk, f.media), pk)

\* media_info, lines 228-241: the fetched media is stored; an error that
\* leaves the fetch chain leaves media_info
InfoStore(c, pk, f) ==
    IF f.res # "ok" THEN Raise([c EXCEPT !.tr = @ \o f.tr], f.res)
    ELSE InfoReturn(Put([c EXCEPT !.tr = @ \o f.tr], pk, f.media), pk)

Enter(c, how) == [c EXCEPT !.tr = Append(@, Ev("media_info", how))]

\* media_info, line 227: fetch on a miss or when the cache is not to be used
InfoLookup(c, pk, miss, orc) ==
    IF miss THEN InfoStore(Enter(c, "miss"), pk, FetchChain(orc))
    ELSE InfoReturn(Enter(c, "hit"), pk)

\* media_info, line 226: media_pk = self.media_pk(media_pk)
InfoParsed(c, r, use_cache, orc) ==
    IF r.err # "" THEN Raise(c, r.err)
    ELSE InfoLookup(c, r.val, NeedFetch(use_cache, r.val, c.cache), orc)

\* MediaMixin.media_info
InfoCall(c, arg, use_cache, orc) ==
    InfoParsed(c, media_pk(arg), use_cache, orc)

\* media_id, lines 52-53: user = self.media_user(media_id), then the join;
\* the copy media_info returned is dropped
WithOwner(u, arg) ==
    IF u.res # "ok" THEN u
    ELSE Collect([u EXCEPT !.sid = JoinId(arg, u.heap[u.ret].user),
                           !.ret = 0])

\* variant of MediaIdCall: the owner is looked up for every argument
MediaIdCall_AlwaysLookup(c, arg, orc) ==
    WithOwner(InfoCall(c, arg, TRUE, orc), arg)

\* MediaMixin.media_id (with media_user, which is media_info(pk).user)
MediaIdCall(c, arg, orc) ==
    IF HasSep(arg) THEN [c EXCEPT !.sid = arg]
    ELSE IF ~IsDigit(arg) THEN Raise(c, "AssertionError")
    ELSE WithOwner(InfoCall(c, arg, TRUE, orc), arg)

\* variant of LoginAsserted: the assertion is not made
LoginAsserted_Skipped(uid) == TRUE

\* "assert self.user_id"
LoginAsserted(uid) == uid

\* the mutating private_request: it raises, or returns the platform's answer
Request(c, name, out) ==
    IF out = "ClientError"
    THEN Raise([c EXCEPT !.tr = Append(@, Ev(name, out))], out)
    ELSE [c EXCEPT !.tr = Append(@, Ev(name, out)), !.flag = (out = "ok")]

\* media_delete, line 265: pop the key parsed from the composite id, after
\* the request returned
DeleteDone(b, r) ==
    IF b.res # "ok" THEN b
    ELSE IF r.err # "" THEN Raise(b, r.err)
    ELSE Pop(b, r.val)

\* media_delete, lines 260-265
DeleteResolved(a, orc) ==
    IF a.res # "ok" THEN a
    ELSE DeleteDone(Request(a, "delete", orc.m), media_pk(a.sid))

\* MediaMixin.media_delete
DeleteCall(c, uid, arg, orc) ==
    IF ~LoginAsserted(uid) THEN Raise(c, "AssertionError")
    ELSE DeleteResolved(MediaIdCall(c, arg, orc), orc)

\* variant of EditLoaded: the entry is popped after the request returned,
\* as media_delete does
EditLoaded_PopAfter(m, r, orc) ==
    IF m.res # "ok" THEN m
    ELSE DeleteDone(Request([m EXCEPT !.ret = 0], "edit_media", orc.m), r)

\* media_edit, lines 300-327: the payload built from caption, title,
\* usertags, location and media.product_type only shapes the request body;
\* the cache entry is popped, then the request is sent
EditLoaded(m, r, orc) ==
    IF m.res # "ok" THEN m
    ELSE Request(Pop([m EXCEPT !.ret = 0], r.val), "edit_media", orc.m)

\* media_edit, line 299: media = self.media_info(media_id)
EditResolved(a, orc) ==
    IF a.res # "ok" THEN a
    ELSE EditLoaded(InfoCall(a, a.sid, TRUE, orc), media_pk(a.sid), orc)

\* MediaMixin.media_edit
EditCall(c, uid, arg, orc) ==
    IF ~LoginAsserted(uid) THEN Raise(c, "AssertionError")
    ELSE EditResolved(MediaIdCall(c, arg, orc), orc)

\* media_like, lines 381-394
LikeResolved(a, revert, orc) ==
    IF a.res # "ok" THEN a
    ELSE Request(a, IF revert THEN "unlike" ELSE "like", orc.m)

\* MediaMixin.media_like
LikeCall(c, uid, arg, revert, orc) ==
    IF ~LoginAsserted(uid) THEN Raise(c, "AssertionError")
    ELSE LikeResolved(MediaIdCall(c, arg, orc), revert, orc)

\* MediaMixin.media_unlike
UnlikeCall(c, uid, arg, orc) == LikeCall(c, uid, arg, TRUE, orc)

\* MediaMixin.media_pk called on its own: the parsed integer or the error
PkCall(c, r) ==
    IF r.err # "" THEN Raise(c, r.err) ELSE [c EXCEPT !.val = r.val]

\* the Media object extract_media_v1 builds is a new object
V1Built(c, v) ==
    IF v.res # "ok" THEN Raise([c EXCEPT !.tr = @ \o v.tr], v.res)
    ELSE [c EXCEPT !.heap = (Alloc(c.heap) :> v.media) @@ @,
                   !.ret = Alloc(c.heap),
                   !.tr = @ \o v.tr]

\* MediaMixin.media_info_v1 called on its own
V1Call(c, out, orc) == V1Built(c, media_info_v1(out, orc))

\* ---------------------------------------------------------------- actions
Empty == <<>>

NoCall == [op |-> "none", arg |-> <<>>, use_cache |-> FALSE, pk |-> 0,
           pre |-> [since |-> "none", cached |-> FALSE, data |-> NoMedia],
           res |-> "ok", ret |-> 0, data |-> NoMedia, sid |-> <<>>,
           flag |-> FALSE, val |-> 0, tr |-> <<>>]

\* the client objects of the two-client specification
Clients == {"A", "B"}

InstInit == [self |-> "A", filled |-> [c \in Clients |-> {}]]

\* no call in progress on either thread
InfoThreadIdle == [pc |-> "idle", pk |-> 0, use_cache |-> FALSE,
                   media |-> NoMedia, res |-> "", data |-> NoMedia,
                   stale |-> "no", staleput |-> FALSE]

MutThreadIdle == [pc |-> "idle", op |-> "none", pk |-> 0, res |-> ""]

ThrInit == [i |-> InfoThreadIdle, m |-> MutThreadIdle]

Init ==
    /\ user_id \in BOOLEAN
    /\ cache = Empty
    /\ heap = Empty
    /\ stored = Empty
    /\ since = [pk \in PKs |-> "none"]
    /\ last = NoCall
    /\ inst = InstInit
    /\ thr = ThrInit

HasEv(tr, e) == \E i \in 1..Len(tr) : tr[i].e = e

CountEv(tr, e) == Cardinality({i \in 1..Len(tr) : tr[i].e = e})

MutatingEvs == {"delete", "edit_media", "like", "unlike"}

\* the answers a call can observe: a call that does not reach the fetch
\* chain, or no mutating request (probed with the default answers, which let
\* it run furthest), is given the default answers there
OraclesNoChain == {o \in Oracles : /\ o.g1 = DefaultOracle.g1
                                   /\ o.el = DefaultOracle.el
                                   /\ o.g2 = DefaultOracle.g2
                                   /\ o.p = DefaultOracle.p
                                   /\ o.user = DefaultOracle.user}

OraclesNoMutate == {o \in Oracles : o.m = DefaultOracle.m}

OraclesFor(tr0) ==
    IF HasEv(tr0, "gql")
    THEN (IF \E e \in MutatingEvs : HasEv(tr0, e) THEN Oracles
          ELSE OraclesNoMutate)
    ELSE (IF \E e \in MutatingEvs : HasEv(tr0, e) THEN OraclesNoChain
          ELSE {DefaultOracle})

PkOf(arg) == LET r == media_pk(arg) IN IF r.err = "" THEN r.val ELSE 0

\* the history of the primary key after a call
SinceAfter(pk, c) ==
    IF pk \notin DOMAIN since THEN since
    ELSE IF HasEv(c.tr, "delete") \/ HasEv(c.tr, "edit_media")
         THEN [since EXCEPT ![pk] = "mut"]
    ELSE IF HasEv(c.tr, "deepcopy") THEN [since EXCEPT ![pk] = "info"]
    ELSE IF HasEv(c.tr, "media_info") /\ since[pk] = "mut"
         THEN [since EXCEPT ![pk] = "none"]
    ELSE since

\* Object ids are not observable by the program, only sharing is: after a
\* call the live objects are renumbered, a cache object by its key and a
\* returned object RetId.
Renumber(ch, o) ==
    IF o = 0 THEN 0
    ELSE IF \E pk \in DOMAIN ch : ch[pk] = o
         THEN CHOOSE pk \in DOMAIN ch : ch[pk] = o
    ELSE RetId

Compact(ch, hp, rt) ==
    LET live == Range(ch) \cup ({rt} \ {0})
        ids  == {Renumber(ch, o) : o \in live}
    IN [cache |-> [pk \in DOMAIN ch |-> Renumber(ch, ch[pk])],
        heap  |-> [n \in ids |-> hp[CHOOSE o \in live : Renumber(ch, o) = n]],
        ret   |-> Renumber(ch, rt)]

\* the state after a call that ended in working state c; keep tells whether
\* the call returns its Media object to the caller
Finish(op, arg, use_cache, c, keep) ==
    LET pk == PkOf(arg)
        rt == IF keep /\ c.res = "ok" THEN c.ret ELSE 0
        n  == Compact(c.cache, c.heap, rt)
    IN /\ cache' = n.cache
       /\ heap' = n.heap
       /\ stored' = c.stored
       /\ since' = SinceAfter(pk, c)
       /\ last' = [op |-> op, arg |-> arg, use_cache |-> use_cache, pk |-> pk,
                   pre |-> [since |-> IF pk \in DOMAIN since THEN since[pk]
                                      ELSE "none",
                            cached |-> pk \in DOMAIN cache,
                            data |-> IF pk \in DOMAIN cache
                                     THEN heap[cache[pk]] ELSE NoMedia],
                   res |-> c.res, ret |-> n.ret,
                   data |-> IF rt # 0 THEN c.heap[rt] ELSE NoMedia,
                   sid |-> c.sid, flag |-> c.flag, val |-> c.val, tr |-> c.tr]
       /\ UNCHANGED user_id

Idle == last.op = "none"

MediaInfo(arg, use_cache) ==
    /\ Idle
    /\ UNCHANGED <<inst, thr>>
    /\ \E orc \in OraclesFor(InfoCall(Ctx, arg, use_cache, DefaultOracle).tr) :
           Finish("media_info", arg, use_cache,
                  InfoCall(Ctx, arg, use_cache, orc), TRUE)

MediaId(arg) ==
    /\ Idle
    /\ UNCHANGED <<inst, thr>>
    /\ \E orc \in OraclesFor(MediaIdCall(Ctx, arg, DefaultOracle).tr) :
           Finish("media_id", arg, TRUE, MediaIdCall(Ctx, arg, orc), FALSE)

MediaDelete(arg) ==
    /\ Idle
    /\ UNCHANGED <<inst, thr>>
    /\ \E orc \in OraclesFor(DeleteCall(Ctx, user_id, arg, DefaultOracle).tr) :
           Finish("media_delete", arg, TRUE,
                  DeleteCall(Ctx, user_id, arg, orc), FALSE)

MediaEdit(arg) ==
    /\ Idle
    /\ UNCHANGED <<inst, thr>>
    /\ \E orc \in OraclesFor(EditCall(Ctx, user_id, arg, DefaultOracle).tr) :
           Finish("media_edit", arg, TRUE,
                  EditCall(Ctx, user_id, arg, orc), FALSE)

MediaLike(arg, revert) ==
    /\ Idle
    /\ UNCHANGED <<inst, thr>>
    /\ \E orc \in OraclesFor(LikeCall(Ctx, user_id, arg, revert, DefaultOracle).tr) :
           Finish("media_like", arg, revert,
                  LikeCall(Ctx, user_id, arg, revert, orc), FALSE)

MediaUnlike(arg) ==
    /\ Idle
    /\ UNCHANGED <<inst, thr>>
    /\ \E orc \in OraclesFor(UnlikeCall(Ctx, user_id, arg, DefaultOracle).tr) :
           Finish("media_unlike", arg, TRUE,
                  UnlikeCall(Ctx, user_id, arg, orc), FALSE)

\* outcomes of private_request when media_info_v1 is called on its own: also
\* an error that is not a ClientError
DirectOutcomes == PrivateOutcomes \cup {"Exception"}

MediaInfoV1(arg) ==
    /\ Idle
    /\ UNCHANGED <<inst, thr>>
    /\ \E out \in DirectOutcomes :
         \E u \in (IF out = "ok" THEN Owners ELSE {DefaultOracle.user}) :
           Finish("media_info_v1", arg, FALSE,
                  V1Call(Ctx, out, [DefaultOracle EXCEPT !.user = u]), TRUE)

MediaPk(arg) ==
    /\ Idle
    /\ UNCHANGED <<inst, thr>>
    /\ Finish("media_pk", arg, FALSE, PkCall(Ctx, media_pk(arg)), FALSE)

\* the caller overwrites the fields of the Media object it was returned
CallerMutate ==
    /\ last.ret # 0
    /\ heap[last.ret] # Scribbled
    /\ heap' = [heap EXCEPT ![last.ret] = Scribbled]
    /\ UNCHANGED <<user_id, cache, stored, since, last, inst, thr>>

\* the caller is done with the result of the call that returned
CallerTakes ==
    /\ ~Idle
    /\ heap' = Restrict(heap, DOMAIN heap \cap Range(cache))
    /\ last' = NoCall
    /\ UNCHANGED <<user_id, cache, stored, since, inst, thr>>

Next ==
    \/ \E arg \in InputIds, uc \in BOOLEAN : MediaInfo(arg, uc)
    \/ \E arg \in InputIds : MediaId(arg)
    \/ \E arg \in InputIds : MediaDelete(arg)
    \/ \E arg \in InputIds : MediaEdit(arg)
    \/ \E arg \in InputIds, revert \in BOOLEAN : MediaLike(arg, revert)
    \/ \E arg \in InputIds : MediaUnlike(arg)
    \/ \E arg \in DigitIds : MediaInfoV1(arg)
    \/ \E arg \in InputIds : MediaPk(arg)
    \/ CallerMutate
    \/ CallerTakes

Spec == Init /\ [][Next]_vars

\* ------------------------------------------------- two clients, one class
\* _medias_cache is an attribute of the class MediaMixin; the methods only
\* read it through self and change it in place (item assignment, pop), so
\* every client object works on the one dictionary `cache`.
ValidIds == DigitIds \cup CompositeIds

InitClients ==
    /\ user_id = TRUE
    /\ cache = Empty
    /\ heap = Empty
    /\ stored = Empty
    /\ since = [pk \in PKs |-> "none"]
    /\ last = NoCall
    /\ inst = InstInit
    /\ thr = ThrInit

\* the last cache write of a call: 0 when it made none
LastWrite(tr) ==
    IF ~HasEv(tr, "put") /\ ~HasEv(tr, "pop") THEN 0
    ELSE CHOOSE i \in 1..Len(tr) :
             /\ tr[i].e \in {"put", "pop"}
             /\ \A j \in (i + 1)..Len(tr) : tr[j].e \notin {"put", "pop"}

\* the keys a client wrote and did not pop, after a call of its own on pk
FilledAfter(own, pk, tr) ==
    IF pk = 0 \/ LastWrite(tr) = 0 THEN own
    ELSE IF tr[LastWrite(tr)].e = "put" THEN own \cup {pk}
    ELSE own \ {pk}

ClientReturn(self, op, arg, use_cache, c, keep) ==
    /\ Finish(op, arg, use_cache, c, keep)
    /\ inst' = [self |-> self,
                filled |-> [inst.filled EXCEPT
                                ![self] = FilledAfter(@, PkOf(arg), c.tr)]]
    /\ UNCHANGED thr

ClientInfo(self, arg, use_cache) ==
    /\ Idle
    /\ \E orc \in OraclesFor(InfoCall(Ctx, arg, use_cache, DefaultOracle).tr) :
           ClientReturn(self, "media_info", arg, use_cache,
                        InfoCall(Ctx, arg, use_cache, orc), TRUE)

ClientDelete(self, arg) ==
    /\ Idle
    /\ \E orc \in OraclesFor(DeleteCall(Ctx, user_id, arg, DefaultOracle).tr) :
           ClientReturn(self, "media_delete", arg, TRUE,
                        DeleteCall(Ctx, user_id, arg, orc), FALSE)

ClientEdit(self, arg) ==
    /\ Idle
    /\ \E orc \in OraclesFor(EditCall(Ctx, user_id, arg, DefaultOracle).tr) :
           ClientReturn(self, "media_edit", arg, TRUE,
                        EditCall(Ctx, user_id, arg, orc), FALSE)

NextClients ==
    \/ \E self \in Clients, arg \in ValidIds, uc \in BOOLEAN :
           ClientInfo(self, arg, uc)
    \/ \E self \in Clients, arg \in ValidIds : ClientDelete(self, arg)
    \/ \E self \in Clients, arg \in ValidIds : ClientEdit(self, arg)
    \/ CallerTakes

SpecClients == InitClients /\ [][NextClients]_vars

\* ------------------------------------------------ two threads, one client
\* The methods take no lock.  One thread runs media_info, the other runs
\* media_edit or media_delete on a full media id; a thread can be preempted
\* between any two statements, so each step below is one access to the
\* cache or one blocking call (the fetch chain, a private request).
InitThreads ==
    /\ user_id = TRUE
    /\ cache = Empty
    /\ heap = Empty
    /\ stored = Empty
    /\ since = [pk \in PKs |-> "none"]
    /\ last = NoCall
    /\ inst = InstInit
    /\ thr = ThrInit

\* the shared dictionary after a step that ended in working state c
Shared(c) ==
    LET n == Compact(c.cache, c.heap, 0)
    IN /\ cache' = n.cache
       /\ heap' = n.heap
       /\ stored' = c.stored
       /\ UNCHANGED <<user_id, since, last, inst>>

\* media_info, lines 226-227: parse the key, test the cache
TInfoCheck(arg, use_cache) ==
    /\ thr.i.pc = "idle"
    /\ thr' = [thr EXCEPT !.i =
                  [InfoThreadIdle EXCEPT
                      !.pc = IF NeedFetch(use_cache, PkOf(arg), cache)
                             THEN "fetch" ELSE "read",
                      !.pk = PkOf(arg),
                      !.use_cache = use_cache]]
    /\ UNCHANGED <<user_id, cache, heap, stored, since, last, inst>>

\* the thread state after the fetch chain ended with f
InfoFetched(t, f) ==
    [t EXCEPT !.pc = IF f.res = "ok" THEN "put" ELSE "done",
              !.media = f.media,
              !.res = IF f.res = "ok" THEN "" ELSE f.res]

\* media_info, lines 228-240: the fetch chain
TInfoFetch ==
    /\ thr.i.pc = "fetch"
    /\ \E orc \in OraclesNoMutate :
           thr' = [thr EXCEPT !.i = InfoFetched(@, FetchChain(orc))]
    /\ UNCHANGED <<user_id, cache, heap, stored, since, last, inst>>

\* media_info, line 241: self._medias_cache[media_pk] = media
TInfoPut ==
    /\ thr.i.pc = "put"
    /\ Shared(Put(Ctx, thr.i.pk, thr.i.media))
    /\ thr' = [thr EXCEPT !.i.pc = "read",
                          !.i.staleput = (thr.i.stale = "yes")]

\* what line 242 returns: the subscription raises KeyError when the key is
\* not in the dictionary
ReadEntry(t, ch, hp) ==
    IF t.pk \notin DOMAIN ch THEN [t EXCEPT !.pc = "done", !.res = "KeyError"]
    ELSE [t EXCEPT !.pc = "done", !.res = "ok",
                   !.data = deepcopy(hp, ch[t.pk]).heap[deepcopy(hp, ch[t.pk]).ref]]

\* media_info, line 242: return deepcopy(self._medias_cache[media_pk])
TInfoRead ==
    /\ thr.i.pc = "read"
    /\ thr' = [thr EXCEPT !.i = ReadEntry(@, cache, heap)]
    /\ UNCHANGED <<user_id, cache, heap, stored, since, last, inst>>

\* the caller of media_info has its result
TInfoDone ==
    /\ thr.i.pc = "done"
    /\ thr' = [thr EXCEPT !.i = InfoThreadIdle]
    /\ UNCHANGED <<user_id, cache, heap, stored, since, last, inst>>

\* media_edit, line 299, after media_id returned a.sid
EditBegun(a, orc) ==
    IF a.res # "ok" THEN a ELSE InfoCall(a, a.sid, TRUE, orc)

\* media_edit, lines 297-299
EditBegin(c, uid, arg, orc) ==
    IF ~LoginAsserted(uid) THEN Raise(c, "AssertionError")
    ELSE EditBegun(MediaIdCall(c, arg, orc), orc)

MutStarted(op, arg, c, pc) ==
    [pc |-> IF c.res = "ok" THEN pc ELSE "done", op |-> op,
     pk |-> PkOf(arg), res |-> IF c.res = "ok" THEN "" ELSE c.res]

\* media_edit, lines 297-322: the media is loaded through media_info, run
\* here without preemption
TEditLoad(arg) ==
    /\ thr.m.pc = "idle"
    /\ \E orc \in OraclesNoMutate :
           /\ Shared(EditBegin(Ctx, user_id, arg, orc))
           /\ thr' = [thr EXCEPT !.m =
                         MutStarted("media_edit", arg,
                                    EditBegin(Ctx, user_id, arg, orc), "pop")]

\* a media_info that holds a fetched Media not yet stored, for the key of
\* the mutating call
InfoHoldsFetched == thr.i.pc = "put" /\ thr.i.pk = thr.m.pk

\* media_edit, line 323: the pop; the request follows, so a Media that
\* media_info holds was fetched before the edit
TEditPop ==
    /\ thr.m.pc = "pop"
    /\ Shared(Pop(Ctx, thr.m.pk))
    /\ thr' = [thr EXCEPT !.m.pc = "request",
                          !.i.stale = IF InfoHoldsFetched THEN "yes" ELSE @]

\* media_edit, lines 324-327
TEditRequest ==
    /\ thr.m.pc = "request"
    /\ \E out \in MutateOutcomes :
           thr' = [thr EXCEPT !.m.pc = "done",
                              !.m.res = IF out = "ClientError" THEN out ELSE "ok"]
    /\ UNCHANGED <<user_id, cache, heap, stored, since, last, inst>>

\* media_delete, lines 258-264, for a full media id (media_id returns it as
\* it is): the request; a Media that media_info holds at this point was
\* fetched before the delete
TDeleteRequest(arg) ==
    /\ thr.m.pc = "idle"
    /\ LoginAsserted(user_id)
    /\ \E out \in MutateOutcomes :
           thr' = [thr EXCEPT
                      !.m = MutStarted("media_delete", arg,
                                       Request(Ctx, "delete", out), "dpop"),
                      !.i.stale = IF thr.i.pc = "put" /\ thr.i.pk = PkOf(arg)
                                  THEN "pre" ELSE @]
    /\ UNCHANGED <<user_id, cache, heap, stored, since, last, inst>>

\* media_delete, line 265: the pop
TDeletePop ==
    /\ thr.m.pc = "dpop"
    /\ Shared(Pop(Ctx, thr.m.pk))
    /\ thr' = [thr EXCEPT !.m.pc = "done", !.m.res = "ok",
                          !.i.stale = IF InfoHoldsFetched /\ @ = "pre"
                                      THEN "yes" ELSE @]

\* the caller of the mutating method has its result
TMutDone ==
    /\ thr.m.pc = "done"
    /\ thr' = [thr EXCEPT !.m = MutThreadIdle]
    /\ UNCHANGED <<user_id, cache, heap, stored, since, last, inst>>

NextThreads ==
    \/ \E arg \in DigitIds, uc \in BOOLEAN : TInfoCheck(arg, uc)
    \/ TInfoFetch
    \/ TInfoPut
    \/ TInfoRead
    \/ TInfoDone
    \/ \E arg \in CompositeIds : TEditLoad(arg)
    \/ TEditPop
    \/ TEditRequest
    \/ \E arg \in CompositeIds : TDeleteRequest(arg)
    \/ TDeletePop
    \/ TMutDone

SpecThreads == InitThreads /\ [][NextThreads]_vars

\* ----------------------------------------------------------------- claims
IsInfo == last.op = "media_info"

IsHit == IsInfo /\ Len(last.tr) >= 1 /\ last.tr[1] = Ev("media_info", "hit")

IsMiss == IsInfo /\ Len(last.tr) >= 1 /\ last.tr[1] = Ev("media_info", "miss")

FetchEvs == {"gql", "inject", "v1"}

MutatingOps == {"media_delete", "media_edit", "media_like", "media_unlike"}

\* the cache entry of the key of the last call holds exactly the Media m
CachedAs(m) ==
    /\ last.pk \in DOMAIN cache
    /\ heap[cache[last.pk]] = m
    /\ stored[last.pk] = m

\* C1: a media_info(pk, use_cache=True) made after a media_info(pk) returned,
\* with no delete or edit request on pk in between, returns without invoking
\* the graph strategy, the session injection or the private strategy
C1_RepeatedInfoDoesNotFetch ==
    (IsInfo /\ last.use_cache /\ last.pre.since = "info") =>
        /\ last.res = "ok"
        /\ \A e \in FetchEvs : ~HasEv(last.tr, e)
        /\ ~HasEv(last.tr, "put")

C1_Witness ==
    /\ IsInfo /\ last.use_cache /\ last.pre.since = "info"
    /\ last.res = "ok"

\* C2: a media_info(pk) made after a delete or edit request on pk was issued
\* misses the cache, runs the fetch chain and returns what it fetched
C2_InfoAfterMutationRefetches ==
    (IsInfo /\ last.pre.since = "mut") =>
        /\ HasEv(last.tr, "gql")
        /\ last.res = "ok" => (HasEv(last.tr, "put") /\ CachedAs(last.data))

\* C3: when the graph strategy raises ClientLoginRequired and the session
\* injection fails, media_info raises ClientLoginRequired, does not attempt
\* the private strategy and writes nothing to the cache
C3_LoginRequiredPropagates ==
    (IsMiss /\ Len(last.tr) >= 3
            /\ last.tr[2] = Ev("gql", "ClientLoginRequired")
            /\ last.tr[3] = Ev("inject", "False")) =>
        /\ last.res = "ClientLoginRequired"
        /\ ~HasEv(last.tr, "v1")
        /\ ~HasEv(last.tr, "put")

\* C4: on a miss, when the first graph attempt raises ClientLoginRequired and
\* the injection succeeds, the graph strategy is retried, and when the retry
\* succeeds media_info returns the graph result, having made one injection,
\* two graph calls and no private call, and the graph result is cached
C4_ElevatedRetryReturnsGraphResult ==
    (IsMiss /\ Len(last.tr) >= 3
            /\ last.tr[2] = Ev("gql", "ClientLoginRequired")
            /\ last.tr[3] = Ev("inject", "True")) =>
        /\ Len(last.tr) >= 4
        /\ last.tr[4].e = "gql"
        /\ last.tr[4].r = "ok" =>
              /\ last.res = "ok"
              /\ last.data.via = "gql"
              /\ CountEv(last.tr, "inject") = 1
              /\ CountEv(last.tr, "gql") = 2
              /\ CountEv(last.tr, "v1") = 0
              /\ CachedAs(last.data)

C4_Witness ==
    /\ IsMiss /\ Len(last.tr) >= 4
    /\ last.tr[2] = Ev("gql", "ClientLoginRequired")
    /\ last.tr[3] = Ev("inject", "True")
    /\ last.tr[4] = Ev("gql", "ok")
    /\ last.res = "ok"

\* C5: on a miss, when the graph strategy raises MediaNotFound the private
\* strategy is attempted, and when it succeeds media_info returns the private
\* result (no error reaches the caller) and caches it under pk
C5_NotFoundFallsBackToPrivate ==
    (IsMiss /\ Len(last.tr) >= 2
            /\ last.tr[2] = Ev("gql", "MediaNotFound")) =>
        /\ Len(last.tr) >= 3
        /\ last.tr[3].e = "v1"
        /\ last.tr[3].r = "ok" =>
              /\ last.res = "ok"
              /\ last.data.via = "v1"
              /\ CachedAs(last.data)

C5_Witness ==
    /\ IsMiss /\ Len(last.tr) >= 3
    /\ last.tr[2] = Ev("gql", "MediaNotFound")
    /\ last.tr[3] = Ev("v1", "ok")
    /\ last.res = "ok"

\* C6: without a session, media_delete, media_edit, media_like and
\* media_unlike raise the assertion error, make no transport call and leave
\* the cache as it was
C6_NoSessionFailsBeforeTransport ==
    [][(~user_id /\ last.op = "none" /\ last'.op \in MutatingOps) =>
          /\ last'.res = "AssertionError"
          /\ last'.tr = <<>>
          /\ cache' = cache
          /\ heap' = heap
          /\ stored' = stored]_vars

C6_Witness ==
    /\ ~user_id
    /\ last.op = "media_delete"
    /\ last.res = "AssertionError"
    /\ last.pk \in DOMAIN cache

\* C7: the object media_info returns is never the stored cache object, every
\* cache entry keeps the contents it was written with whatever callers do to
\* the objects they received, and a cache hit returns those contents
C7_CallersNeverShareCacheEntries ==
    /\ \A pk \in DOMAIN cache : heap[cache[pk]] = stored[pk]
    /\ last.ret # 0 => last.ret \notin Range(cache)
    /\ (IsHit /\ last.res = "ok") => last.data = stored[last.pk]

C7_Witness ==
    /\ IsHit /\ last.res = "ok"
    /\ heap[last.ret] = Scribbled
    /\ last.data = heap[cache[last.pk]]

\* C8: after a media_delete that issued its delete request, whether the
\* request returned or raised, the cache holds no entry for the primary key
C8_DeleteAlwaysEvicts ==
    (last.op = "media_delete" /\ HasEv(last.tr, "delete") /\ last.pk # 0) =>
        last.pk \notin DOMAIN cache

\* C9: for an all-digit or composite identifier x whose media_id(x) returns,
\* media_pk(media_id(x)) is defined and equals media_pk(x)
C9_PkOfCompositeIdRoundTrip ==
    (last.op = "media_id" /\ last.res = "ok"
                          /\ last.arg \in DigitIds \cup CompositeIds) =>
        /\ media_pk(last.sid).err = ""
        /\ media_pk(last.arg).err = ""
        /\ media_pk(last.sid).val = media_pk(last.arg).val

C9_Witness ==
    /\ last.op = "media_id" /\ last.res = "ok"
    /\ last.arg \in DigitIds
    /\ HasSep(last.sid)

\* C10: a media_edit that issues its edit request has popped the cache entry
\* of the primary key just before, so the cache holds no entry for it after
\* the call, also when the request raised
C10_EditEvictsBeforeRequest ==
    (last.op = "media_edit" /\ HasEv(last.tr, "edit_media")) =>
        /\ Len(last.tr) >= 2
        /\ last.tr[Len(last.tr)].e = "edit_media"
        /\ last.tr[Len(last.tr) - 1].e = "pop"
        /\ last.pk \notin DOMAIN cache

C10_Witness ==
    /\ last.op = "media_edit"
    /\ last.res = "ClientError"
    /\ last.pre.cached
    /\ last.tr[Len(last.tr)] = Ev("edit_media", "ClientError")

\* C11: one media_info call makes at most one session injection, at most two
\* graph requests and at most one private request; a ClientLoginRequired of
\* the retried graph request is followed by the private request, not by
\* another injection
C11_BoundedAttemptsPerInfo ==
    IsInfo =>
        /\ CountEv(last.tr, "inject") <= 1
        /\ CountEv(last.tr, "gql") <= 2
        /\ CountEv(last.tr, "v1") <= 1
        /\ \A i \in 3..Len(last.tr) :
              last.tr[i] = Ev("gql", "ClientLoginRequired") =>
                  /\ i < Len(last.tr)
                  /\ last.tr[i + 1].e = "v1"

C11_Witness ==
    /\ IsMiss /\ Len(last.tr) >= 5
    /\ last.tr[2] = Ev("gql", "ClientLoginRequired")
    /\ last.tr[3] = Ev("inject", "True")
    /\ last.tr[4] = Ev("gql", "ClientLoginRequired")
    /\ last.tr[5].e = "v1"

\* the error media_info_v1 raises for the error r of its private request
RaisedByPrivate(r) ==
    IF r \in {"ClientNotFoundError", "ClientError:Media not found"}
    THEN "MediaNotFound" ELSE r

\* the call of media_info ended with a failed private request
PrivateFailedLast ==
    /\ IsMiss
    /\ last.tr[Len(last.tr)].e = "v1"
    /\ last.tr[Len(last.tr)].r # "ok"

\* C12: when a graph request of media_info failed with an error other than
\* ClientLoginRequired and the private request failed too, media_info raises
\* the error of the private strategy, not the graph error
C12_TerminalErrorIsPrivateError ==
    (/\ PrivateFailedLast
     /\ \E i \in 1..Len(last.tr) :
           /\ last.tr[i].e = "gql"
           /\ last.tr[i].r \notin {"ok", "ClientLoginRequired"}) =>
        last.res = RaisedByPrivate(last.tr[Len(last.tr)].r)

C12_Witness ==
    /\ PrivateFailedLast
    /\ HasEv(last.tr, "log")
    /\ last.tr[2] = Ev("gql", "Exception")
    /\ last.res = "ClientError"

\* the errors of the exception classes imported at the top of media.py, all
\* of them ClientError or derived from it
ClientLevel == {"ClientError", "ClientNotFoundError", "MediaNotFound",
                "ClientLoginRequired"}

\* C13: in media_info, a graph error that is not a ClientError is logged once,
\* right after it, and the private request follows the log entry; when every
\* graph error of the call is a ClientError nothing is logged and the private
\* request is still made after the last failed graph attempt
C13_UnknownGraphErrorsLogged ==
    IsMiss =>
        /\ \A i \in 1..Len(last.tr) :
              (last.tr[i].e = "gql" /\ last.tr[i].r \notin ClientLevel \cup {"ok"}) =>
                  /\ Len(last.tr) >= i + 2
                  /\ last.tr[i + 1] = Ev("log", last.tr[i].r)
                  /\ last.tr[i + 2].e = "v1"
                  /\ CountEv(last.tr, "log") = 1
        /\ (\A i \in 1..Len(last.tr) :
               last.tr[i].e = "gql" => last.tr[i].r \in ClientLevel \cup {"ok"}) =>
                  /\ CountEv(last.tr, "log") = 0
                  /\ \A i \in 1..Len(last.tr) :
                        (last.tr[i].e = "gql" /\ last.tr[i].r \in ClientLevel
                           /\ \A j \in (i + 1)..Len(last.tr) : last.tr[j].e # "gql") =>
                              HasEv(last.tr, "v1")

C13_Witness ==
    /\ IsMiss /\ Len(last.tr) >= 6
    /\ last.tr[2] = Ev("gql", "ClientLoginRequired")
    /\ last.tr[4] = Ev("gql", "Exception")
    /\ last.tr[5] = Ev("log", "Exception")
    /\ last.tr[6] = Ev("v1", "ok")
    /\ last.res = "ok"

\* C14: media_info_v1 raises MediaNotFound when its private request raised
\* ClientNotFoundError or a ClientError whose message contains "Media not
\* found"; any other error of the request is raised as it is; the cache is
\* not written
C14_PrivateErrorMapping ==
    (last.op = "media_info_v1" /\ last.tr[1].r # "ok") =>
        /\ last.tr[1].r \in {"ClientNotFoundError",
                              "ClientError:Media not found"} =>
              last.res = "MediaNotFound"
        /\ last.tr[1].r \in {"ClientError", "Exception"} =>
              last.res = last.tr[1].r
        /\ last.ret = 0
        /\ Len(last.tr) = 1

C14_Witness ==
    /\ last.op = "media_info_v1"
    /\ last.tr[1] = Ev("v1", "Exception")
    /\ last.res = "Exception"

\* C15: media_id returns an argument that contains "_" as it is, making no
\* call and leaving the cache alone; an argument without "_" that is not
\* all-digit raises the assertion error before any call; a call that looks
\* the owner up through media_info has an all-digit argument
C15_MediaIdLooksUpOnlyDigitIds ==
    [][(last.op = "none" /\ last'.op = "media_id") =>
          /\ HasSep(last'.arg) =>
                /\ last'.res = "ok"
                /\ last'.sid = last'.arg
                /\ last'.tr = <<>>
                /\ cache' = cache /\ heap' = heap /\ stored' = stored
          /\ (~HasSep(last'.arg) /\ ~IsDigit(last'.arg)) =>
                /\ last'.res = "AssertionError"
                /\ last'.tr = <<>>
                /\ cache' = cache /\ heap' = heap /\ stored' = stored
          /\ last'.tr # <<>> =>
                /\ IsDigit(last'.arg)
                /\ last'.tr[1].e = "media_info"]_vars

C15_Witness ==
    /\ last.op = "media_id"
    /\ last.arg \in CompositeIds
    /\ last.res = "ok"
    /\ last.sid = last.arg
    /\ last.pk \notin DOMAIN cache

\* C16: for an identifier that contains "_" and whose segment before the
\* first "_" is all-digit, media_pk returns the integer value of that segment
C16_PkOfAnySeparatedId ==
    (last.op = "media_pk" /\ HasSep(last.arg)
                         /\ IsDigit(Split(last.arg)[1])) =>
        /\ last.res = "ok"
        /\ last.val = DecValue(Split(last.arg)[1])

\* C17: media_info(pk, use_cache=False) runs the fetch chain whether or not pk
\* is cached; when it returns, the entry of pk is the newly fetched Media and
\* the call returned a copy of it; a later cache hit makes no request and
\* returns the contents the entry was last written with
C17_ForcedRefetchReplacesEntry ==
    /\ (IsInfo /\ ~last.use_cache /\ last.pk # 0) =>
          /\ IsMiss
          /\ last.tr[2].e = "gql"
          /\ last.res = "ok" =>
                /\ HasEv(last.tr, "put")
                /\ last.data = [via |-> IF HasEv(last.tr, "v1") THEN "v1" ELSE "gql",
                                 user |-> last.data.user]
                /\ CachedAs(last.data)
    /\ (IsHit /\ last.res = "ok") =>
          /\ last.tr = <<Ev("media_info", "hit"), Ev("deepcopy", "ok")>>
          /\ last.data = stored[last.pk]
          /\ last.data = last.pre.data

C17_Witness ==
    /\ IsInfo /\ ~last.use_cache
    /\ last.pre.cached
    /\ last.res = "ok"
    /\ last.data # last.pre.data
    /\ CachedAs(last.data)

\* C20: a media_info that raises leaves the cache as it was: no entry is
\* created for pk, and an entry that existed keeps its contents
C20_FailedInfoKeepsCache ==
    [][(last.op = "none" /\ last'.op = "media_info" /\ last'.res # "ok") =>
          /\ cache' = cache
          /\ heap' = heap
          /\ stored' = stored
          /\ last'.pre.cached => CachedAs(last.pre.data)']_vars

C20_Witness ==
    /\ IsMiss /\ ~last.use_cache
    /\ last.res = "MediaNotFound"
    /\ last.pre.cached
    /\ CachedAs(last.pre.data)

\* C19: with two client objects, a media_info is a cache hit only for a key
\* that the calling client itself wrote and did not pop since, and an entry a
\* client wrote stays in the cache until that client pops it
C19_CachePerInstance ==
    /\ IsHit => last.pk \in inst.filled[inst.self]
    /\ \A c \in Clients : \A pk \in inst.filled[c] : pk \in DOMAIN cache

\* C18: with a media_info and a media_edit or media_delete running on two
\* threads of one client, media_info never fails with KeyError on an entry
\* that was popped between its membership test and its read, and it never
\* stores a Media fetched before the mutation after the mutation popped the
\* entry
C18_CacheStepsSerialized ==
    /\ thr.i.res # "KeyError"
    /\ ~thr.i.staleput

====
